---- MODULE Spec2Model ----
(***************************************************************************)
(* Model of backend/scoring/engine.py (ScoringEngine, ScoreBreakdown).     *)
(*                                                                         *)
(* Number representation.  Python floats are modelled by exact or          *)
(* fixed-point integers:                                                   *)
(*   - a weight is a rational num/den; a loaded table carries its weights  *)
(*     in thousandths (den = WScale);                                      *)
(*   - a factor score is an integer number of milli-points                 *)
(*     (score * SScale), so 50.0 is 50000 and 100 is 100000;               *)
(*   - total is the rational num/den of milli-points, den being the        *)
(*     denominator of the engine's weights.                                *)
(* Python dicts are functions whose DOMAIN is the set of keys present;     *)
(* Python's None is the reserved string NoneVal.                           *)
(***************************************************************************)
EXTENDS Integers, Sequences, FiniteSets, TLC

\* ------------------------------------------------------------------------
\* Generic helpers
\* ------------------------------------------------------------------------

\* Python's None
NoneVal == "<None>"

\* Marker of "no exception raised"
NoError == "ok"

\* dict.get(k, default)
Get(d, k, default) == IF k \in DOMAIN d THEN d[k] ELSE default

\* dict.get(k): default None
GetOrNone(d, k) == Get(d, k, NoneVal)

\* Python truthiness of a str-or-None value: None and '' are falsy
Truthy(v) == v # NoneVal /\ v # ""

\* d[k] = v on a copy of d
DictSet(d, k, v) == [x \in DOMAIN d \cup {k} |-> IF x = k THEN v ELSE d[x]]

Abs(x) == IF x < 0 THEN -x ELSE x

Min(a, b) == IF a <= b THEN a ELSE b

Max(a, b) == IF a >= b THEN a ELSE b

RECURSIVE SumSeq(_)
\* sum(list)
SumSeq(s) == IF s = <<>> THEN 0 ELSE Head(s) + SumSeq(Tail(s))

RECURSIVE SumValues(_, _)
\* sum(d.values()) over the keys in K
SumValues(d, K) ==
    IF K = {} THEN 0
    ELSE LET k == CHOOSE x \in K : TRUE
         IN  d[k] + SumValues(d, K \ {k})

RECURSIVE SeqsUpTo(_, _)
\* all sequences over S of length at most n
SeqsUpTo(S, n) ==
    IF n = 0 THEN {<<>>}
    ELSE LET R == SeqsUpTo(S, n - 1)
         IN  R \cup {Append(r, x) : r \in {q \in R : Len(q) = n - 1}, x \in S}

RECURSIVE Repeat(_, _)
\* [x] * n
Repeat(x, n) == IF n = 0 THEN <<>> ELSE <<x>> \o Repeat(x, n - 1)

\* ------------------------------------------------------------------------
\* Scales
\* ------------------------------------------------------------------------

\* weights of a loaded table are given in thousandths
WScale == 1000

\* factor scores are carried in milli-points
SScale == 1000

\* fixed-point scale of the logarithm (1e-4)
LnScale == 10000

\* ln(2) in millionths
Ln2Micro == 693147

\* the six factor names
FactorNames ==
    {"demand_strength", "demand_velocity", "competition_proxy",
     "feasibility", "automation_friendly", "monetization_clarity"}

\* ------------------------------------------------------------------------
\* Strings: the conversions the code applies to them
\* ------------------------------------------------------------------------

\* str.lower() on the ops-burden strings of the model
Lower(str) ==
    CASE str = "LOW"  -> "low"
      [] str = "High" -> "high"
      [] OTHER        -> str

\* 'show_hn' in source, on the source strings of the model
ContainsShowHn(src) == src \in {"hackernews_show_hn", "show_hn"}

\* datetime.strptime(date_str, '%Y-%m-%d') as a day number (day 0 is
\* 2026-02-23), for the strings that parse; every other string raises
\* ValueError
DateDay == ("2026-02-18" :> -5) @@ ("2026-02-23" :> 0)

\* ------------------------------------------------------------------------
\* math.log1p in fixed point
\* ------------------------------------------------------------------------
\* Every step truncates, so the result is a monotone lower approximation of
\* the float value, within 0.01 point of it on the inputs of the model
\* (10 ln 11 = 23.979 is 23976 milli-points here).

\* ln(num/den) for den <= num < 2*den, in units of 1/LnScale:
\* ln(m) = 2 atanh((m-1)/(m+1)) = 2 (z + z^3/3 + z^5/5 + ...)
LnMantissa(num, den) ==
    LET z  == ((num - den) * LnScale) \div (num + den)
        z2 == (z * z) \div LnScale
        t3 == (z * z2) \div LnScale
        t5 == (t3 * z2) \div LnScale
        t7 == (t5 * z2) \div LnScale
        t9 == (t7 * z2) \div LnScale
    IN  2 * (z + (t3 \div 3) + (t5 \div 5) + (t7 \div 7) + (t9 \div 9))

RECURSIVE Halvings(_, _)
\* the n with 2^n <= num/den < 2^(n+1), for num >= den > 0
Halvings(num, den) ==
    IF num >= 2 * den THEN 1 + Halvings(num, 2 * den) ELSE 0

\* ln(num/den) for num >= den > 0, in units of 1/LnScale:
\* ln(2^n * m) = n ln 2 + ln m
LnFix(num, den) ==
    LET n == Halvings(num, den)
    IN  (n * Ln2Micro) \div (1000000 \div LnScale)
        + LnMantissa(num, den * 2^n)

\* math.log1p(total/count) * 10 in milli-points, for total/count > -1
Log1pTimes10(total, count) ==
    IF total >= 0 THEN LnFix(total + count, count)
    ELSE -LnFix(count, total + count)

\* ------------------------------------------------------------------------
\* Factor functions
\* ------------------------------------------------------------------------

VolumeTypes ==
    {"volume", "post_count", "story_count", "video_count", "interest_score"}

GrowthTypes == {"growth_rate", "trend_slope"}

RECURSIVE MetricValues(_, _)
\* [s['metric_value'] for s in signals if s['metric_type'] in types]
MetricValues(signals, types) ==
    IF signals = <<>> THEN <<>>
    ELSE LET s    == Head(signals)
             rest == MetricValues(Tail(signals), types)
         IN  IF s["metric_type"] \in types
             THEN <<s["metric_value"]>> \o rest
             ELSE rest

\* the exception the comprehension above raises, if any: s['metric_type']
\* and s['metric_value'] are subscripts, a missing key is a KeyError
MetricValuesError(signals, types) ==
    IF \E i \in 1..Len(signals) :
          \/ "metric_type" \notin DOMAIN signals[i]
          \/ /\ signals[i]["metric_type"] \in types
             /\ "metric_value" \notin DOMAIN signals[i]
    THEN "KeyError"
    ELSE NoError

\* exception raised by calculate_demand_strength, or NoError
DemandStrengthError(signals) ==
    IF signals = <<>> THEN NoError
    ELSE IF MetricValuesError(signals, VolumeTypes) # NoError
         THEN MetricValuesError(signals, VolumeTypes)
    ELSE LET vm == MetricValues(signals, VolumeTypes)
         IN  IF vm # <<>> /\ SumSeq(vm) + Len(vm) <= 0
             THEN "ValueError"
             ELSE NoError

\* calculate_demand_strength without its empty-list return
calculate_demand_strength_noempty(signals) ==
    LET volume_metrics == MetricValues(signals, VolumeTypes)
    IN  IF volume_metrics = <<>> THEN 50 * SScale
        ELSE Min(100 * SScale,
                 Log1pTimes10(SumSeq(volume_metrics), Len(volume_metrics)))

\* calculate_demand_strength taking the sum for the mean
calculate_demand_strength_sum(signals) ==
    IF signals = <<>> THEN 0
    ELSE LET volume_metrics == MetricValues(signals, VolumeTypes)
         IN  IF volume_metrics = <<>> THEN 50 * SScale
             ELSE Min(100 * SScale, Log1pTimes10(SumSeq(volume_metrics), 1))

\* calculate_demand_strength(signals), in milli-points
calculate_demand_strength(signals) ==
    IF signals = <<>> THEN 0
    ELSE LET volume_metrics == MetricValues(signals, VolumeTypes)
         IN  IF volume_metrics = <<>> THEN 50 * SScale
             ELSE Min(100 * SScale,
                      Log1pTimes10(SumSeq(volume_metrics), Len(volume_metrics)))

\* _is_recent that counts the day exactly `days` back as recent
is_recent_inclusive(date_str, days, now) ==
    IF date_str \in DOMAIN DateDay
    THEN now - DateDay[date_str] <= days
    ELSE FALSE

\* _is_recent(date_str, days) evaluated on day now
is_recent(date_str, days, now) ==
    IF date_str \in DOMAIN DateDay
    THEN now - DateDay[date_str] < days
    ELSE FALSE

\* exception raised by calculate_demand_velocity, or NoError
DemandVelocityError(signals) ==
    IF signals = <<>> THEN NoError
    ELSE MetricValuesError(signals, GrowthTypes)

\* calculate_demand_velocity without the clamp of the growth score
calculate_demand_velocity_noclamp(signals, now) ==
    IF signals = <<>> THEN 50 * SScale
    ELSE LET growth_signals == MetricValues(signals, GrowthTypes)
         IN  IF growth_signals # <<>>
             THEN 50 * SScale
                  + (SumSeq(growth_signals) * SScale)
                        \div (2 * Len(growth_signals))
             ELSE IF \E i \in 1..Len(signals) :
                        /\ Truthy(GetOrNone(signals[i], "data_date"))
                        /\ is_recent(signals[i]["data_date"], 7, now)
                  THEN 70 * SScale
                  ELSE 50 * SScale

\* calculate_demand_velocity whose recency test looks at the first signal
\* only
calculate_demand_velocity_first(signals, now) ==
    IF signals = <<>> THEN 50 * SScale
    ELSE LET growth_signals == MetricValues(signals, GrowthTypes)
         IN  IF growth_signals # <<>>
             THEN LET score == 50 * SScale
                        + (SumSeq(growth_signals) * SScale)
                              \div (2 * Len(growth_signals))
                  IN  Max(0, Min(100 * SScale, score))
             ELSE IF /\ Truthy(GetOrNone(signals[1], "data_date"))
                     /\ is_recent(signals[1]["data_date"], 7, now)
                  THEN 70 * SScale
                  ELSE 50 * SScale

\* calculate_demand_velocity(signals) evaluated on day now, in milli-points
calculate_demand_velocity(signals, now) ==
    IF signals = <<>> THEN 50 * SScale
    ELSE LET growth_signals == MetricValues(signals, GrowthTypes)
         IN  IF growth_signals # <<>>
             THEN LET score == 50 * SScale
                        + (SumSeq(growth_signals) * SScale)
                              \div (2 * Len(growth_signals))
                  IN  Max(0, Min(100 * SScale, score))
             ELSE IF \E i \in 1..Len(signals) :
                        /\ Truthy(GetOrNone(signals[i], "data_date"))
                        /\ is_recent(signals[i]["data_date"], 7, now)
                  THEN 70 * SScale
                  ELSE 50 * SScale

\* exception raised by calculate_competition_proxy, or NoError
CompetitionProxyError(signals) ==
    IF DemandStrengthError(signals) # NoError
    THEN DemandStrengthError(signals)
    ELSE IF \E i \in 1..Len(signals) : Get(signals[i], "source", "") = NoneVal
         THEN "TypeError"
         ELSE NoError

\* calculate_competition_proxy that takes five launches for saturation
calculate_competition_proxy_five(signals, idea) ==
    LET volume == calculate_demand_strength(signals)
        show_hn_count ==
            Cardinality({i \in 1..Len(signals) :
                            ContainsShowHn(Get(signals[i], "source", ""))})
    IN  IF show_hn_count >= 5 THEN 30 * SScale
        ELSE IF volume > 80 * SScale THEN 50 * SScale
        ELSE IF volume < 30 * SScale THEN 80 * SScale
        ELSE 65 * SScale

\* calculate_competition_proxy(signals, idea), in milli-points
calculate_competition_proxy(signals, idea) ==
    LET volume == calculate_demand_strength(signals)
        show_hn_count ==
            Cardinality({i \in 1..Len(signals) :
                            ContainsShowHn(Get(signals[i], "source", ""))})
    IN  IF show_hn_count > 5 THEN 30 * SScale
        ELSE IF volume > 80 * SScale THEN 50 * SScale
        ELSE IF volume < 30 * SScale THEN 80 * SScale
        ELSE 65 * SScale

\* exception raised by idea.get('ops_burden_estimate', 'medium').lower()
OpsBurdenError(idea) ==
    IF Get(idea, "ops_burden_estimate", "medium") = NoneVal
    THEN "AttributeError"
    ELSE NoError

\* calculate_feasibility without the compliance penalty
calculate_feasibility_nopenalty(idea) ==
    LET ops_burden == Lower(Get(idea, "ops_burden_estimate", "medium"))
        base_score == CASE ops_burden = "low"    -> 85 * SScale
                        [] ops_burden = "medium" -> 65 * SScale
                        [] ops_burden = "high"   -> 40 * SScale
                        [] OTHER                 -> 65 * SScale
        bonus   == IF Truthy(GetOrNone(idea, "distribution_channel"))
                   THEN 10 * SScale ELSE 0
    IN  Max(0, Min(100 * SScale, base_score + bonus))

\* calculate_feasibility(idea), in milli-points
calculate_feasibility(idea) ==
    LET ops_burden == Lower(Get(idea, "ops_burden_estimate", "medium"))
        base_score == CASE ops_burden = "low"    -> 85 * SScale
                        [] ops_burden = "medium" -> 65 * SScale
                        [] ops_burden = "high"   -> 40 * SScale
                        [] OTHER                 -> 65 * SScale
        bonus   == IF Truthy(GetOrNone(idea, "distribution_channel"))
                   THEN 10 * SScale ELSE 0
        penalty == IF Truthy(GetOrNone(idea, "compliance_risks"))
                   THEN 15 * SScale ELSE 0
    IN  Max(0, Min(100 * SScale, base_score + bonus - penalty))

\* calculate_automation_friendly that scores a high burden like a medium one
calculate_automation_friendly_flat(idea) ==
    LET ops_burden == Lower(Get(idea, "ops_burden_estimate", "medium"))
    IN  CASE ops_burden = "low"    -> 90 * SScale
          [] ops_burden = "medium" -> 60 * SScale
          [] ops_burden = "high"   -> 60 * SScale
          [] OTHER                 -> 60 * SScale

\* calculate_automation_friendly(idea), in milli-points
calculate_automation_friendly(idea) ==
    LET ops_burden == Lower(Get(idea, "ops_burden_estimate", "medium"))
    IN  CASE ops_burden = "low"    -> 90 * SScale
          [] ops_burden = "medium" -> 60 * SScale
          [] ops_burden = "high"   -> 30 * SScale
          [] OTHER                 -> 60 * SScale

\* calculate_monetization_clarity that adds 20 for the target user too
calculate_monetization_clarity_twenty(idea) ==
    LET score == 50 * SScale
                 + (IF Truthy(GetOrNone(idea, "pricing_model"))
                    THEN 20 * SScale ELSE 0)
                 + (IF Truthy(GetOrNone(idea, "target_user"))
                    THEN 20 * SScale ELSE 0)
                 + (IF Truthy(GetOrNone(idea, "value_prop"))
                    THEN 15 * SScale ELSE 0)
    IN  Min(100 * SScale, score)

\* calculate_monetization_clarity(idea), in milli-points
calculate_monetization_clarity(idea) ==
    LET score == 50 * SScale
                 + (IF Truthy(GetOrNone(idea, "pricing_model"))
                    THEN 20 * SScale ELSE 0)
                 + (IF Truthy(GetOrNone(idea, "target_user"))
                    THEN 15 * SScale ELSE 0)
                 + (IF Truthy(GetOrNone(idea, "value_prop"))
                    THEN 15 * SScale ELSE 0)
    IN  Min(100 * SScale, score)

\* ------------------------------------------------------------------------
\* Weights: ScoringEngine.__init__
\* ------------------------------------------------------------------------

\* DEFAULT_WEIGHTS with 0.05 moved from demand strength to feasibility
DEFAULT_WEIGHTS_shifted ==
    [demand_strength |-> 200, demand_velocity |-> 200,
     competition_proxy |-> 150, feasibility |-> 250,
     automation_friendly |-> 100, monetization_clarity |-> 100]

\* ScoringEngine.DEFAULT_WEIGHTS, in thousandths
DEFAULT_WEIGHTS ==
    [demand_strength |-> 250, demand_velocity |-> 200,
     competition_proxy |-> 150, feasibility |-> 200,
     automation_friendly |-> 100, monetization_clarity |-> 100]

\* _load_weights(weights_path): the object read from the weight source.
\* kind "none": no path given or no such file; kind "unreadable": open()
\* raises; kind "invalid": the file is not valid YAML; kind "empty":
\* safe_load gives None; kind "notmapping": safe_load gives a list or a
\* scalar (in these four the exception is caught and the defaults returned);
\* kind "config": the parsed YAML mapping, its 'weights' entry, when there, a
\* mapping of numbers; kind "config_bad": a YAML mapping whose 'weights' entry
\* is something else, named by src.weights and returned as it is.
load_weights(src) ==
    IF src.kind = "config"
    THEN Get(src.config, "weights", DEFAULT_WEIGHTS)
    ELSE IF src.kind = "config_bad"
         THEN src.weights
         ELSE DEFAULT_WEIGHTS

\* the exception sum(self.weights.values()) raises on a loaded object that is
\* not a mapping of numbers: None and a list have no .values(), strings do
\* not add to the integer 0
WeightsTypeError(entry) ==
    IF entry = "strings" THEN "TypeError" ELSE "AttributeError"

\* self.weights right after _load_weights: the loaded values as rationals
AsWeights(table) == [num |-> table, den |-> WScale]

\* sum(self.weights.values()) is WeightSum(w) / w.den
WeightSum(w) == SumValues(w.num, DOMAIN w.num)

\* {k: v / total for k, v in self.weights.items()}, total = s / w.den # 0:
\* v / total = num / s, kept with a positive denominator
Normalized(w, s) ==
    IF s > 0 THEN [num |-> w.num, den |-> s]
    ELSE [num |-> [k \in DOMAIN w.num |-> -w.num[k]], den |-> -s]

\* _validate_weights that divides by the total whatever the total is
validate_weights_always(w) ==
    LET total == WeightSum(w)
    IN  IF DOMAIN w.num = {}
        THEN [status |-> "ok", weights |-> w]
        ELSE IF total = 0
        THEN [status |-> "raised", error |-> "ZeroDivisionError"]
        ELSE [status |-> "ok", weights |-> Normalized(w, total)]

\* _validate_weights that warns but keeps the weights as loaded
validate_weights_keep(w) ==
    LET total == WeightSum(w)
    IN  IF Abs(total - w.den) * 1000 > w.den /\ total = 0
           /\ DOMAIN w.num # {}
        THEN [status |-> "raised", error |-> "ZeroDivisionError"]
        ELSE [status |-> "ok", weights |-> w]

\* _validate_weights(): abs(total - 1.0) > 0.001 decides the normalization;
\* a total of zero makes v / total raise ZeroDivisionError, unless the
\* mapping is empty and the comprehension divides nothing
validate_weights(w) ==
    LET total == WeightSum(w)
    IN  IF Abs(total - w.den) * 1000 > w.den
        THEN IF DOMAIN w.num = {}
             THEN [status |-> "ok", weights |-> w]
             ELSE IF total = 0
             THEN [status |-> "raised", error |-> "ZeroDivisionError"]
             ELSE [status |-> "ok", weights |-> Normalized(w, total)]
        ELSE [status |-> "ok", weights |-> w]

\* ScoringEngine(weights_path)
new_engine(src) ==
    IF src.kind = "config_bad"
    THEN [status |-> "raised", error |-> WeightsTypeError(load_weights(src))]
    ELSE validate_weights(AsWeights(load_weights(src)))

\* _load_weights returns self.DEFAULT_WEIGHTS, the dict of the class itself
\* and no copy of it: in the except branch, without a file, and as the
\* default of config.get('weights', ...)
loads_defaults(src) ==
    IF src.kind = "config" THEN "weights" \notin DOMAIN src.config
    ELSE src.kind # "config_bad"

\* _validate_weights binds self.weights to a new dict exactly when the total
\* is off by more than 0.001; otherwise self.weights stays the loaded object
rebinds(w) == Abs(WeightSum(w) - w.den) * 1000 > w.den

\* d[k] = v / WScale on a weight dict d, kept over the dict's denominator
set_item(w, k, v) ==
    [num |-> [j \in DOMAIN w.num \cup {k} |->
                 IF j = k THEN (v * w.den) \div WScale ELSE w.num[j]],
     den |-> w.den]

\* get_weights_config()['weights'] is self.weights, the same dict object
get_weights_config(ref) == [weights |-> ref]

\* ------------------------------------------------------------------------
\* score_idea
\* ------------------------------------------------------------------------

\* weighted_total that leaves monetization_clarity out of the sum
weighted_total_short(w, scores) ==
    [num |-> scores.demand_strength * w.num["demand_strength"]
           + scores.demand_velocity * w.num["demand_velocity"]
           + scores.competition_proxy * w.num["competition_proxy"]
           + scores.feasibility * w.num["feasibility"]
           + scores.automation_friendly * w.num["automation_friendly"],
     den |-> w.den]

\* the weighted total of score_idea: sum of factor * self.weights[factor],
\* as the numerator over the denominator of the weights
weighted_total(w, scores) ==
    [num |-> scores.demand_strength * w.num["demand_strength"]
           + scores.demand_velocity * w.num["demand_velocity"]
           + scores.competition_proxy * w.num["competition_proxy"]
           + scores.feasibility * w.num["feasibility"]
           + scores.automation_friendly * w.num["automation_friendly"]
           + scores.monetization_clarity * w.num["monetization_clarity"],
     den |-> w.den]

\* the first exception score_idea raises, in evaluation order, or NoError
ScoreIdeaError(w, idea, signals) ==
    IF DemandStrengthError(signals) # NoError
        THEN DemandStrengthError(signals)
    ELSE IF DemandVelocityError(signals) # NoError
        THEN DemandVelocityError(signals)
    ELSE IF CompetitionProxyError(signals) # NoError
        THEN CompetitionProxyError(signals)
    ELSE IF OpsBurdenError(idea) # NoError
        THEN OpsBurdenError(idea)
    ELSE IF ~(FactorNames \subseteq DOMAIN w.num)
        THEN "KeyError"
    ELSE NoError

\* score_idea(idea, signals) on an engine with weights w, called on day now
score_idea(w, idea, signals, now) ==
    IF ScoreIdeaError(w, idea, signals) # NoError
    THEN [status |-> "raised", error |-> ScoreIdeaError(w, idea, signals)]
    ELSE LET scores ==
                 [demand_strength      |-> calculate_demand_strength(signals),
                  demand_velocity      |-> calculate_demand_velocity(signals, now),
                  competition_proxy    |-> calculate_competition_proxy(signals, idea),
                  feasibility          |-> calculate_feasibility(idea),
                  automation_friendly  |-> calculate_automation_friendly(idea),
                  monetization_clarity |-> calculate_monetization_clarity(idea)]
         IN  [status               |-> "ok",
              demand_strength      |-> scores.demand_strength,
              demand_velocity      |-> scores.demand_velocity,
              competition_proxy    |-> scores.competition_proxy,
              feasibility          |-> scores.feasibility,
              automation_friendly  |-> scores.automation_friendly,
              monetization_clarity |-> scores.monetization_clarity,
              total                |-> weighted_total(w, scores)]

\* ------------------------------------------------------------------------
\* ScoreBreakdown.to_dict and rank_ideas
\* ------------------------------------------------------------------------

\* n / d (d > 0) rounded to the nearest integer, halves to even
RoundDiv(n, d) ==
    LET q == n \div d
        r == n % d
    IN  IF 2 * r > d THEN q + 1
        ELSE IF 2 * r < d THEN q
        ELSE IF q % 2 = 0 THEN q ELSE q + 1

\* ScoreBreakdown.to_dict(): every field rounded to 2 decimals (hundredths)
to_dict(b) ==
    [demand_strength      |-> RoundDiv(b.demand_strength, SScale \div 100),
     demand_velocity      |-> RoundDiv(b.demand_velocity, SScale \div 100),
     competition_proxy    |-> RoundDiv(b.competition_proxy, SScale \div 100),
     feasibility          |-> RoundDiv(b.feasibility, SScale \div 100),
     automation_friendly  |-> RoundDiv(b.automation_friendly, SScale \div 100),
     monetization_clarity |-> RoundDiv(b.monetization_clarity, SScale \div 100),
     total                |-> RoundDiv(b.total.num, (SScale \div 100) * b.total.den)]

\* the body of the scoring loop of rank_ideas for one (idea, signals) pair
idea_with_score(idea, breakdown) ==
    DictSet(DictSet(idea, "total_score", breakdown.total),
            "score_breakdown", to_dict(breakdown))

\* the sort key x['total_score']; all totals of one call share the
\* (positive) denominator of the engine's weights, so the numerators order them
SortKey(x) == x["total_score"].num

RECURSIVE InsertDesc_before(_, _)
\* x placed in front of the elements whose key equals its own
InsertDesc_before(sorted, x) ==
    IF sorted = <<>> THEN <<x>>
    ELSE IF SortKey(Head(sorted)) > SortKey(x)
         THEN <<Head(sorted)>> \o InsertDesc_before(Tail(sorted), x)
         ELSE <<x>> \o sorted

RECURSIVE InsertDesc(_, _)
\* x placed behind every element whose key is >= its own
InsertDesc(sorted, x) ==
    IF sorted = <<>> THEN <<x>>
    ELSE IF SortKey(Head(sorted)) >= SortKey(x)
         THEN <<Head(sorted)>> \o InsertDesc(Tail(sorted), x)
         ELSE <<x>> \o sorted

\* the sort left out
SortDesc_unsorted(list) == list

RECURSIVE SortDesc(_)
\* list.sort(key=..., reverse=True): descending, equal keys keep their order
SortDesc(list) ==
    IF list = <<>> THEN <<>>
    ELSE InsertDesc(SortDesc(SubSeq(list, 1, Len(list) - 1)), list[Len(list)])

\* rank_ideas(ideas_with_signals) on an engine with weights w, on day now
rank_ideas(w, items, now) ==
    LET breakdowns == [i \in 1..Len(items) |->
                          score_idea(w, items[i][1], items[i][2], now)]
    IN  IF \E i \in 1..Len(items) : breakdowns[i].status = "raised"
        THEN LET first == CHOOSE i \in 1..Len(items) :
                             /\ breakdowns[i].status = "raised"
                             /\ \A j \in 1..(i - 1) : breakdowns[j].status = "ok"
             IN  [status |-> "raised", error |-> breakdowns[first].error]
        ELSE LET scored_ideas ==
                     [i \in 1..Len(items) |->
                         idea_with_score(items[i][1], breakdowns[i])]
                 sorted == SortDesc(scored_ideas)
             IN  [status |-> "ok",
                  items  |-> [i \in 1..Len(sorted) |->
                                 DictSet(sorted[i], "rank", i)]]

\* ------------------------------------------------------------------------
\* main.py: update_scoring_weights
\* ------------------------------------------------------------------------

\* whether the name yaml is bound in main.py: its imports are os, sys,
\* hashlib, json, pathlib, typing, datetime, fastapi, pydantic, storage,
\* connectors and scoring.engine
MainImportsYaml == FALSE

\* update_scoring_weights(weights): the table is normalized when its sum is
\* more than 0.01 away from 1.0 (v / total raises on a zero sum), the file
\* is opened for writing, yaml.dump is called, and the scorer is rebuilt
\* from the file
update_scoring_weights(w) ==
    LET total   == SumValues(w, DOMAIN w)
        outside == Abs(total - WScale) * 100 > WScale
    IN  IF outside /\ total = 0
        THEN [status |-> "raised", error |-> "ZeroDivisionError"]
        ELSE IF ~MainImportsYaml
        THEN [status |-> "raised", error |-> "NameError"]
        ELSE LET new_weights == IF outside
                                THEN Normalized(AsWeights(w), total)
                                ELSE AsWeights(w)
                 r == validate_weights(new_weights)
             IN  IF r.status = "raised" THEN r
                 ELSE [status |-> "ok", weights |-> new_weights,
                       scorer |-> r.weights]

\* ------------------------------------------------------------------------
\* connectors: construction and HackerNewsConnector.search_show_hn
\* ------------------------------------------------------------------------

\* a signal as DemandSignal.to_dict() and the demand_signals rows give it
Signal(src, type, value, date) ==
    [source |-> src, metric_type |-> type, metric_value |-> value,
     data_date |-> date]

\* BaseConnector.__init__: self.mock_mode = mock_mode or not api_key
base_mock_mode(api_key, mock_mode) == mock_mode \/ ~Truthy(api_key)

\* mock_mode after the constructor of the class named by req.class; lib_ok
\* tells whether the client library imports and initializes (pytrends, praw)
connector_mock_mode(req) ==
    CASE req.class = "hackernews" ->
             \* super().__init__(None, mock_mode)
             base_mock_mode(NoneVal, req.mock_mode)
      [] req.class = "reddit" ->
             \* super().__init__(None, mock_mode), then the credentials
             \* and praw are looked at only if not self.mock_mode
             LET m == base_mock_mode(NoneVal, req.mock_mode)
             IN  IF m THEN TRUE
                 ELSE IF ~Truthy(req.client_id) \/ ~Truthy(req.client_secret)
                      THEN TRUE
                      ELSE ~req.lib_ok
      [] req.class = "youtube" ->
             LET m == base_mock_mode(req.api_key, req.mock_mode)
             IN  IF ~m /\ ~Truthy(req.api_key) THEN TRUE ELSE m
      [] req.class = "google_trends" ->
             LET m == base_mock_mode(req.api_key, req.mock_mode)
             IN  IF m THEN TRUE ELSE ~req.lib_ok

\* source_name of each connector class
source_name(class) == class

\* the connector object: its class and its mock_mode
new_connector(req) ==
    [status |-> "ok", class |-> req.class,
     mock_mode |-> connector_mock_mode(req)]

\* metric_value of a mock signal: (md5 hash % 1000) + 100, its two ends
MockValues == {100, 1099}

\* nbHits, total comments and average points of a live search, two cases
LiveValues == {1, 50}

\* the DemandSignal.to_dict() dicts HackerNewsConnector.search(query, tags)
\* can return on the day date: in mock mode three 'volume' signals from
\* _generate_mock_signals; otherwise nothing (no hits, request failed) or
\* story_count, engagement and avg_points. tags reach the request
\* parameters only: every signal has source = self.source_name.
hn_search(conn, tags, date) ==
    IF conn.mock_mode
    THEN {<<Signal(source_name(conn.class), "volume", a, date),
            Signal(source_name(conn.class), "volume", b, date),
            Signal(source_name(conn.class), "volume", c, date)>> :
             a \in MockValues, b \in MockValues, c \in MockValues}
    ELSE {<<>>}
         \cup {<<Signal(source_name(conn.class), "story_count", v, date),
                 Signal(source_name(conn.class), "engagement", v, date),
                 Signal(source_name(conn.class), "avg_points", v, date)>> :
                  v \in LiveValues}

\* HackerNewsConnector.search_show_hn(query)
search_show_hn(conn, date) == hn_search(conn, <<"show_hn">>, date)

\* ------------------------------------------------------------------------
\* Inputs of the model
\* ------------------------------------------------------------------------

\* longest signal list built freely from the pool
MaxSignals == 2

\* largest number of launch signals put in front of a list
MaxLaunch == 6

\* longest batch handed to rank_ideas
MaxBatch == 3

\* last day of the clock (day 0 is 2026-02-23)
MaxNow == 2

\* well-formed signals: volume-like, growth-like and neither; dated, undated
\* (None), with an unparseable date
SignalPool ==
    {Signal("reddit", "post_count", 10, "2026-02-18"),
     Signal("google_trends", "interest_score", 150, NoneVal),
     Signal("youtube", "video_count", 30000, "not-a-date"),
     Signal("google_trends", "growth_rate", 50, "2026-02-23"),
     Signal("google_trends", "growth_rate", 250, NoneVal),
     Signal("google_trends", "trend_slope", -250, NoneVal),
     [source |-> "hackernews", metric_type |-> "engagement",
      metric_value |-> 40]}

\* a product-launch signal
LaunchSignal == Signal("hackernews_show_hn", "story_count", 100, NoneVal)

\* the launch signal of tests/test_scoring.py: source and metric_value only
BareLaunchSignal == [source |-> "hackernews_show_hn", metric_value |-> 100]

\* a signal whose source is None
NoSourceSignal == Signal(NoneVal, "post_count", 10, NoneVal)

\* lists that break the Signal invariant: a negative count (mean -0.5, mean -1)
NegativeVolumeLists ==
    {<<Signal("reddit", "post_count", -1, NoneVal),
       Signal("google_trends", "interest_score", 0, NoneVal)>>,
     <<Signal("reddit", "post_count", -1, NoneVal)>>}

\* signal lists that follow the data model
WellFormedLists ==
    SeqsUpTo(SignalPool, MaxSignals)
    \cup {Repeat(LaunchSignal, k) \o base :
             k \in 5..MaxLaunch, base \in SeqsUpTo(SignalPool, 1)}

\* the signal lists score_idea is called with
SignalLists ==
    WellFormedLists
    \cup NegativeVolumeLists
    \cup {<<BareLaunchSignal>>, Repeat(BareLaunchSignal, MaxLaunch),
          <<NoSourceSignal>>}

\* sample_idea of tests/test_scoring.py
SampleIdea ==
    [id |-> "1", title |-> "Test SaaS", target_user |-> "Freelancers",
     value_prop |-> "Automate invoicing", pricing_model |-> "$29/mo",
     distribution_channel |-> "Content marketing",
     ops_burden_estimate |-> "low", compliance_risks |-> NoneVal]

\* the ideas score_idea is called with
Ideas ==
    {[id |-> "1"],
     SampleIdea,
     [id |-> "2", ops_burden_estimate |-> "High",
      compliance_risks |-> "High regulatory"],
     [id |-> "3", ops_burden_estimate |-> "medium", pricing_model |-> "",
      target_user |-> NoneVal, value_prop |-> "Saves time"],
     [id |-> "4", ops_burden_estimate |-> "LOW",
      distribution_channel |-> "SEO", compliance_risks |-> "GDPR"],
     [id |-> "5", ops_burden_estimate |-> "extreme", target_user |-> "SMB"],
     [id |-> "6", ops_burden_estimate |-> NoneVal, pricing_model |-> NoneVal,
      target_user |-> NoneVal, value_prop |-> NoneVal,
      distribution_channel |-> NoneVal, compliance_risks |-> NoneVal]}

\* the (idea, signals) pairs batches are made of: A and C tie, D raises
RankPool ==
    {<<[id |-> "A", ops_burden_estimate |-> "low"],
       <<Signal("reddit", "post_count", 10, "2026-02-18")>> >>,
     <<[id |-> "B", ops_burden_estimate |-> "high"],
       <<Signal("google_trends", "interest_score", 150, NoneVal)>> >>,
     <<[id |-> "C", ops_burden_estimate |-> "low"],
       <<Signal("reddit", "post_count", 10, "2026-02-18")>> >>,
     <<[id |-> "D", ops_burden_estimate |-> NoneVal], <<>> >>}

\* the ideas scored with every signal list; the others are scored with the
\* lists of at most one signal (no factor combines idea and signals)
CoreIdeas == {[id |-> "1"], SampleIdea}

\* one request: a score_idea call or a rank_ideas call, with its arguments
Requests ==
    {[op |-> "score", idea |-> p[1], signals |-> p[2]] :
        p \in {q \in Ideas \X SignalLists :
                  q[1] \in CoreIdeas \/ Len(q[2]) <= 1}}
    \cup {[op |-> "rank", items |-> b] : b \in SeqsUpTo(RankPool, MaxBatch)}

\* the weight tables found in weights.yaml, in thousandths
WeightTables ==
    {[demand_strength |-> 500, demand_velocity |-> 100,
      competition_proxy |-> 100, feasibility |-> 100,
      automation_friendly |-> 100, monetization_clarity |-> 100],
     [demand_strength |-> 1000, demand_velocity |-> 1000,
      competition_proxy |-> 1000, feasibility |-> 1000,
      automation_friendly |-> 1000, monetization_clarity |-> 1000],
     [demand_strength |-> 501, demand_velocity |-> 500,
      competition_proxy |-> 0, feasibility |-> 0,
      automation_friendly |-> 0, monetization_clarity |-> 0],
     [demand_strength |-> 2000, demand_velocity |-> -1000,
      competition_proxy |-> 0, feasibility |-> 0,
      automation_friendly |-> 0, monetization_clarity |-> 0],
     [demand_strength |-> 1000, demand_velocity |-> -1000,
      competition_proxy |-> 0, feasibility |-> 0,
      automation_friendly |-> 0, monetization_clarity |-> 0]}

\* what ScoringEngine(weights_path) finds at weights_path
WeightSources ==
    {[kind |-> "none"], [kind |-> "invalid"]}
    \cup {[kind |-> "config", config |-> [weights |-> t]] : t \in WeightTables}

\* weight tables with a key that is no factor name, with a factor name
\* missing, and with no key at all
OddTables ==
    {[demand_strength |-> 250, demand_velocity |-> 200,
      competition_proxy |-> 150, feasibility |-> 200,
      automation_friendly |-> 100, monetization_clarity |-> 100,
      bonus |-> 1000],
     [demand_strength |-> 250, demand_velocity |-> 200,
      competition_proxy |-> 150, feasibility |-> 200,
      automation_friendly |-> 200],
     [k \in {} |-> 0]}

\* every kind of weight source: the ones above, an unreadable file, an empty
\* file, a YAML list, a mapping without 'weights', the odd tables, and a
\* 'weights' entry that is null, a list, or a mapping of strings
ConfigSources ==
    WeightSources
    \cup {[kind |-> "unreadable"], [kind |-> "empty"], [kind |-> "notmapping"]}
    \cup {[kind |-> "config", config |-> [version |-> 1]]}
    \cup {[kind |-> "config", config |-> [weights |-> t]] : t \in OddTables}
    \cup {[kind |-> "config_bad", weights |-> e] :
             e \in {"null", "list", "strings"}}

\* the ScoreWeights bodies posted to /api/scoring/weights, in thousandths
SubmittedWeights == {DEFAULT_WEIGHTS} \cup WeightTables

\* a batch of two ideas alike in every field, the second with a slightly
\* higher growth: growth values are whole numbers here, so the totals are
\* 0.05 apart under the default weights, the closest two different totals of
\* one batch get
NearTieBatch ==
    <<<<[id |-> "E", ops_burden_estimate |-> "low"],
        <<Signal("google_trends", "growth_rate", 0, NoneVal),
          Signal("google_trends", "growth_rate", 0, NoneVal)>> >>,
      <<[id |-> "F", ops_burden_estimate |-> "low"],
        <<Signal("google_trends", "growth_rate", 0, NoneVal),
          Signal("google_trends", "growth_rate", 1, NoneVal)>> >> >>

\* the requests held while the weight source changes
ConfigRequests ==
    {[op |-> "score", idea |-> i, signals |-> s] :
        i \in {[id |-> "1"], SampleIdea},
        s \in {<<>>, <<Signal("reddit", "post_count", 10, "2026-02-18")>>}}
    \cup {[op |-> "rank", items |-> b] :
             b \in SeqsUpTo(RankPool, 1) \cup {NearTieBatch}}

\* most searches whose signals are collected into one list
MaxSearches == 2

\* the constructor calls: HackerNewsConnector(api_key, mock_mode),
\* YouTubeConnector(api_key, mock_mode), GoogleTrendsConnector(api_key,
\* mock_mode) and RedditConnector(client_id, client_secret, mock_mode);
\* arguments a class does not take are None
ConnectorRequests ==
    {[op |-> "connect", class |-> c, api_key |-> k, client_id |-> NoneVal,
      client_secret |-> NoneVal, mock_mode |-> m, lib_ok |-> l] :
        c \in {"hackernews", "youtube", "google_trends"},
        k \in {NoneVal, "key"}, m \in BOOLEAN, l \in BOOLEAN}
    \cup {[op |-> "connect", class |-> "reddit", api_key |-> NoneVal,
            client_id |-> i, client_secret |-> x, mock_mode |-> m,
            lib_ok |-> l] :
              i \in {NoneVal, "id"}, x \in {NoneVal, "secret"},
              m \in BOOLEAN, l \in BOOLEAN}

\* what the engines of the aliasing runs are constructed from: no file, a
\* file, a mapping without 'weights', and the weight tables
AliasSources ==
    WeightSources \cup {[kind |-> "config", config |-> [version |-> 1]]}

\* the keys assigned through a returned mapping, and the values (thousandths)
AssignedKeys == {"demand_strength"}
AssignedValues == {0, 900}

\* ------------------------------------------------------------------------
\* State machine
\* ------------------------------------------------------------------------

VARIABLES
    built,    \* the last ScoringEngine(...) call: its source and outcome
    engine,   \* self.weights of the engine in use
    input,    \* the request the caller holds
    now,      \* datetime.utcnow(), in days
    last,     \* outcome of the latest call on the engine in use
    prev,     \* outcome of the call before it (same engine, same arguments)
    updated,  \* outcome of the latest update_scoring_weights request
    connector,  \* the connector constructed last: its class and mock_mode
    collected,  \* the signals its searches have returned, as dicts
    heap,     \* the weight dicts alive: ScoringEngine.DEFAULT_WEIGHTS under
              \* "class", the dict an engine made for itself under its name
    engines   \* per engine name: the dict its self.weights refers to

vars == <<built, engine, input, now, last, prev, updated, connector,
          collected, heap, engines>>

\* no call made yet
NoCall == [status |-> "none"]

\* the names engines are bound to
EngineNames == {"e1", "e2"}

\* the dicts before any assignment: DEFAULT_WEIGHTS as the class defines it
NoAssignment == [class |-> AsWeights(DEFAULT_WEIGHTS)]

\* no engine constructed yet
NoEngines == [e \in EngineNames |-> NoCall]

\* a default engine (ScoringEngine()), a request in hand, day 0
Init ==
    /\ built = [source |-> [kind |-> "none"], status |-> "ok",
                error |-> NoError]
    /\ engine = new_engine([kind |-> "none"]).weights
    /\ input \in Requests
    /\ now = 0
    /\ last = NoCall
    /\ prev = NoCall
    /\ updated = NoCall
    /\ connector = NoCall
    /\ collected = <<>>
    /\ heap = NoAssignment
    /\ engines = NoEngines

\* scorer = ScoringEngine(weights_path): when the constructor raises, the
\* assignment does not happen and the engine in use stays
NewEngine(src) ==
    LET r == new_engine(src)
    IN  /\ built' = [source |-> src, status |-> r.status,
                      error |-> IF r.status = "raised"
                                THEN r.error ELSE NoError]
        /\ engine' = IF r.status = "ok" THEN r.weights ELSE engine
        /\ last' = NoCall
        /\ prev' = NoCall
        /\ UNCHANGED <<input, now, updated, connector, collected,
                   heap, engines>>

\* engine.score_idea(idea, signals)
ScoreIdea ==
    /\ input.op = "score"
    /\ last' = score_idea(engine, input.idea, input.signals, now)
    /\ prev' = last
    /\ UNCHANGED <<built, engine, input, now, updated, connector, collected,
                   heap, engines>>

\* rank_ideas that writes total_score, score_breakdown and rank into the
\* caller's idea records instead of copies of them
RankIdeas_inplace ==
    /\ input.op = "rank"
    /\ last' = rank_ideas(engine, input.items, now)
    /\ prev' = last
    /\ input' = IF last'.status = "ok" /\ Len(input.items) > 0
                THEN [input EXCEPT !.items =
                         [i \in 1..Len(input.items) |->
                             <<idea_with_score(
                                   input.items[i][1],
                                   score_idea(engine, input.items[i][1],
                                              input.items[i][2], now)),
                               input.items[i][2]>>]]
                ELSE input
    /\ UNCHANGED <<built, engine, now, updated, connector, collected,
                   heap, engines>>

\* engine.rank_ideas(ideas_with_signals)
RankIdeas ==
    /\ input.op = "rank"
    /\ last' = rank_ideas(engine, input.items, now)
    /\ prev' = last
    /\ UNCHANGED <<built, engine, input, now, updated, connector, collected,
                   heap, engines>>

\* a day passes
Tick ==
    /\ now < MaxNow
    /\ now' = now + 1
    /\ UNCHANGED <<built, engine, input, last, prev, updated, connector,
                   collected, heap, engines>>

Next ==
    \/ \E src \in WeightSources : NewEngine(src)
    \/ ScoreIdea
    \/ RankIdeas
    \/ Tick

Spec == Init /\ [][Next]_vars

\* the optional fields of an idea the factor functions look at
OptionalFields ==
    {"pricing_model", "target_user", "value_prop", "distribution_channel",
     "compliance_risks"}

\* the ops_burden_estimate values of the grid; "" stands for a missing key
OpsChoices == {"", "low", "medium", "high", "extreme"}

\* the idea with the given ops burden and exactly the fields F filled in
GridIdea(ops, F) ==
    [k \in {"id"} \cup F
             \cup (IF ops = "" THEN {} ELSE {"ops_burden_estimate"}) |->
        IF k = "id" THEN "1"
        ELSE IF k = "ops_burden_estimate" THEN ops
        ELSE "given"]

\* every ops burden with every combination of filled-in fields
IdeaGrid == {GridIdea(o, F) : o \in OpsChoices, F \in SUBSET OptionalFields}

\* the data_date values given to the sample signals
SampleDates == {"2026-02-18", "2026-02-23", NoneVal}

\* sample_signals of tests/test_scoring.py, all dated d
SampleSignals(d) ==
    <<Signal("reddit", "post_count", 150, d),
      Signal("google_trends", "interest_score", 75, d),
      Signal("hackernews", "story_count", 25, d)>>

\* the requests of the idea grid: each idea without signals and with the
\* sample signals, and the one-pair batches
IdeaRequests ==
    {[op |-> "score", idea |-> i, signals |-> s] :
        i \in IdeaGrid \cup Ideas,
        s \in {<<>>} \cup {SampleSignals(d) : d \in SampleDates}}
    \cup {[op |-> "rank", items |-> b] : b \in SeqsUpTo(RankPool, 1)}

\* a default engine and one of the requests of the idea grid
InitIdeas ==
    /\ built = [source |-> [kind |-> "none"], status |-> "ok",
                error |-> NoError]
    /\ engine = new_engine([kind |-> "none"]).weights
    /\ input \in IdeaRequests
    /\ now = 0
    /\ last = NoCall
    /\ prev = NoCall
    /\ updated = NoCall
    /\ connector = NoCall
    /\ collected = <<>>
    /\ heap = NoAssignment
    /\ engines = NoEngines

\* the engine on every combination of idea fields
SpecIdeas == InitIdeas /\ [][Next]_vars

\* POST /api/scoring/weights: when the handler raises, the global scorer is
\* not rebound. The file it opened for writing is read again only by a
\* later ScoringEngine(weights_path), whose source NewEngine draws freely.
UpdateWeights(w) ==
    LET r == update_scoring_weights(w)
    IN  /\ updated' = [status |-> r.status, submitted |-> w,
                        error |-> IF r.status = "raised"
                                  THEN r.error ELSE NoError]
        /\ IF r.status = "ok"
           THEN /\ built' = [source |-> [kind |-> "written",
                                         weights |-> r.weights],
                             status |-> "ok", error |-> NoError]
                /\ engine' = r.scorer
                /\ last' = NoCall
                /\ prev' = NoCall
           ELSE UNCHANGED <<built, engine, last, prev>>
        /\ UNCHANGED <<input, now, connector, collected,
                   heap, engines>>

\* a default engine and one of the requests held across reconfigurations
InitConfig ==
    /\ built = [source |-> [kind |-> "none"], status |-> "ok",
                error |-> NoError]
    /\ engine = new_engine([kind |-> "none"]).weights
    /\ input \in ConfigRequests
    /\ now = 0
    /\ last = NoCall
    /\ prev = NoCall
    /\ updated = NoCall
    /\ connector = NoCall
    /\ collected = <<>>
    /\ heap = NoAssignment
    /\ engines = NoEngines

NextConfig ==
    \/ \E src \in ConfigSources : NewEngine(src)
    \/ \E w \in SubmittedWeights : UpdateWeights(w)
    \/ ScoreIdea
    \/ RankIdeas
    \/ Tick

\* the engine under every kind of weight source and under weight updates
SpecConfig == InitConfig /\ [][NextConfig]_vars

\* e = ScoringEngine(weights_path): self.weights is the class dict or the
\* dict parsed from the file, then the normalized dict if the total is off;
\* a constructor that raises leaves the name e as it was
Construct(e, src) ==
    LET loaded == IF loads_defaults(src) THEN heap.class
                  ELSE AsWeights(load_weights(src))
        v == validate_weights(loaded)
        ref == IF loads_defaults(src) /\ ~rebinds(loaded) THEN "class" ELSE e
    IN  /\ input' = [op |-> "construct", engine |-> e, source |-> src]
        /\ IF v.status = "ok"
           THEN /\ engines' = [engines EXCEPT ![e] =
                                   [status |-> "ok", ref |-> ref]]
                /\ heap' = IF ref = "class" THEN heap
                           ELSE (e :> v.weights) @@ heap
           ELSE UNCHANGED <<engines, heap>>
        /\ last' = IF v.status = "ok" THEN NoCall ELSE v
        /\ prev' = NoCall
        /\ UNCHANGED <<built, engine, now, updated, connector, collected>>

\* e.get_weights_config()['weights'][k] = v / WScale (the same dict as
\* e.weights[k] = v / WScale)
AssignReturned(e, k, v) ==
    /\ engines[e].status = "ok"
    /\ (v * heap[engines[e].ref].den) % WScale = 0
    /\ input' = [op |-> "assign", engine |-> e, key |-> k, value |-> v]
    /\ heap' = [heap EXCEPT ![get_weights_config(engines[e].ref).weights] =
                    set_item(@, k, v)]
    /\ last' = NoCall
    /\ prev' = NoCall
    /\ UNCHANGED <<built, engine, now, updated, connector, collected, engines>>

\* e.score_idea(sample_idea, sample_signals)
ScoreWith(e) ==
    /\ engines[e].status = "ok"
    /\ input' = [op |-> "score_with", engine |-> e]
    /\ last' = score_idea(heap[engines[e].ref], SampleIdea,
                          SampleSignals("2026-02-23"), now)
    /\ prev' = last
    /\ UNCHANGED <<built, engine, now, updated, connector, collected, heap,
                   engines>>

\* the class just defined, no engine constructed
InitAliases ==
    /\ built = [source |-> [kind |-> "none"], status |-> "ok",
                error |-> NoError]
    /\ engine = new_engine([kind |-> "none"]).weights
    /\ input = [op |-> "none"]
    /\ now = 0
    /\ last = NoCall
    /\ prev = NoCall
    /\ updated = NoCall
    /\ connector = NoCall
    /\ collected = <<>>
    /\ heap = NoAssignment
    /\ engines = NoEngines

NextAliases ==
    \/ \E e \in EngineNames, src \in AliasSources : Construct(e, src)
    \/ \E e \in EngineNames, k \in AssignedKeys, v \in AssignedValues :
           AssignReturned(e, k, v)
    \/ \E e \in EngineNames : ScoreWith(e)

\* engines, the dicts their weights refer to, and assignments to those dicts
SpecAliases == InitAliases /\ [][NextAliases]_vars

\* datetime.utcnow().strftime('%Y-%m-%d') on the given day
Today(day) == CHOOSE d \in DOMAIN DateDay : DateDay[d] = day

\* the idea the collected signals are scored for
CollectedIdea == [id |-> "1", topic_id |-> "1"]

\* the constructor call the caller holds is made
Connect ==
    /\ input.op = "connect"
    /\ connector' = new_connector(input)
    /\ collected' = <<>>
    /\ last' = NoCall
    /\ prev' = NoCall
    /\ UNCHANGED <<built, engine, input, now, updated, heap, engines>>

\* hn.search_show_hn(query): the signals returned join the topic's signals
SearchShowHn ==
    /\ connector.status = "ok"
    /\ connector.class = "hackernews"
    /\ Len(collected) < 3 * MaxSearches
    /\ \E result \in search_show_hn(connector, Today(now)) :
           collected' = collected \o result
    /\ last' = NoCall
    /\ prev' = NoCall
    /\ UNCHANGED <<built, engine, input, now, updated, connector, heap,
                   engines>>

\* scorer.score_idea(idea, signals) on the topic's signals
ScoreCollected ==
    /\ connector.status = "ok"
    /\ last' = score_idea(engine, CollectedIdea, collected, now)
    /\ prev' = last
    /\ UNCHANGED <<built, engine, input, now, updated, connector, collected,
                   heap, engines>>

\* a default engine, a constructor call in hand, no connector yet
InitConnectors ==
    /\ built = [source |-> [kind |-> "none"], status |-> "ok",
                error |-> NoError]
    /\ engine = new_engine([kind |-> "none"]).weights
    /\ input \in ConnectorRequests
    /\ now = 0
    /\ last = NoCall
    /\ prev = NoCall
    /\ updated = NoCall
    /\ connector = NoCall
    /\ collected = <<>>
    /\ heap = NoAssignment
    /\ engines = NoEngines

NextConnectors ==
    \/ Connect
    \/ SearchShowHn
    \/ ScoreCollected

\* the connectors and the scoring of what they return
SpecConnectors == InitConnectors /\ [][NextConnectors]_vars

\* ------------------------------------------------------------------------
\* Properties
\* ------------------------------------------------------------------------

\* the latest call was score_idea and it returned a ScoreBreakdown
ScoreReturned == input.op = "score" /\ last.status = "ok"

\* the latest call was rank_ideas and it returned a list
RankReturned == input.op = "rank" /\ last.status = "ok"

\* the Signal invariant: volume/count values are non-negative
SignalInvariant(signals) ==
    \A i \in 1..Len(signals) :
        ("metric_type" \in DOMAIN signals[i]
         /\ signals[i]["metric_type"] \in VolumeTypes)
            => signals[i]["metric_value"] >= 0

\* every signal carries the attributes of the data model
WellFormed(signals) ==
    \A i \in 1..Len(signals) :
        /\ {"source", "metric_type", "metric_value"} \subseteq DOMAIN signals[i]
        /\ signals[i]["source"] # NoneVal

\* indices of the volume-like signals
VolumeIndices(signals) ==
    {i \in 1..Len(signals) : signals[i]["metric_type"] \in VolumeTypes}

RECURSIVE SumAt(_, _)
\* sum of the metric values at the indices I
SumAt(signals, I) ==
    IF I = {} THEN 0
    ELSE LET i == CHOOSE x \in I : TRUE
         IN  signals[i]["metric_value"] + SumAt(signals, I \ {i})

RECURSIVE WeightedSum(_, _, _)
\* sum over the factors F of breakdown[f] * num[f]
WeightedSum(b, num, F) ==
    IF F = {} THEN 0
    ELSE LET f == CHOOSE x \in F : TRUE
         IN  b[f] * num[f] + WeightedSum(b, num, F \ {f})

\* a ranked item without the three keys rank_ideas adds
Original(item) ==
    [k \in DOMAIN item \ {"total_score", "score_breakdown", "rank"} |-> item[k]]

\* number of positions of seq holding x
Count(seq, x) == Cardinality({i \in 1..Len(seq) : seq[i] = x})

\* C1: for signals that satisfy the Signal invariant, each of the six
\* sub-scores score_idea returns lies in [0,100].
C1_SubScoresInRange ==
    (ScoreReturned /\ SignalInvariant(input.signals))
        => \A f \in FactorNames : 0 <= last[f] /\ last[f] <= 100 * SScale

\* C1 witness: a returned breakdown that sits on both clamps (demand
\* strength capped at 100, demand velocity floored at 0)
C1_Witness ==
    /\ ScoreReturned
    /\ SignalInvariant(input.signals)
    /\ last.demand_strength = 100 * SScale
    /\ last.demand_velocity = 0

\* C2: on every engine the constructor accepts, the total score_idea returns
\* lies in [0,100] (signals satisfying the Signal invariant).
C2_TotalInRange ==
    (ScoreReturned /\ SignalInvariant(input.signals))
        => /\ 0 <= last.total.num
           /\ last.total.num <= 100 * SScale * last.total.den

\* C3: the total score_idea returns is the sum over the six factors of the
\* sub-score of the same breakdown times the engine's post-normalization
\* weight, and nothing else.
C3_TotalIsWeightedSum ==
    ScoreReturned
        => /\ last.total.den = engine.den
           /\ last.total.num = WeightedSum(last, engine.num, FactorNames)

\* C3 witness: a breakdown returned by an engine whose weights were
\* normalized, with a nonzero monetization term
C3_Witness ==
    /\ ScoreReturned
    /\ engine.den # WScale
    /\ last.monetization_clarity * engine.num["monetization_clarity"] > 0
    /\ last.total.num > 0

\* C4: two score_idea calls on the same engine with identical idea and
\* signals return identical breakdowns, whenever they are made.
C4_Deterministic ==
    (input.op = "score" /\ prev.status # "none") => last = prev

\* C5: in the output of rank_ideas, items with exactly equal totals keep
\* their relative input order: for every total, the output items having it
\* are the input ideas having it, in input order.
C5_StableTies ==
    RankReturned
        => \A n \in 1..Len(last.items) :
              LET t == last.items[n]["total_score"]
                  Tied(x) == x["total_score"] = t
                  tied == SelectSeq(last.items, Tied)
                  ideas == {Original(tied[i]) : i \in 1..Len(tied)}
                  FromTied(pair) == pair[1] \in ideas
                  inputs == SelectSeq(input.items, FromTied)
              IN  /\ Len(tied) = Len(inputs)
                  /\ \A i \in 1..Len(tied) : Original(tied[i]) = inputs[i][1]

\* C5 witness: two different ideas with equal totals in one output
C5_Witness ==
    /\ RankReturned
    /\ \E i, j \in 1..Len(last.items) :
          /\ i < j
          /\ last.items[i]["total_score"] = last.items[j]["total_score"]
          /\ last.items[i]["id"] # last.items[j]["id"]

\* C6: rank_ideas returns one item per input pair, carrying the idea's
\* fields plus total_score, score_breakdown and rank; total_score is
\* non-increasing along the output and the ranks are 1..N in output order.
C6_RankedOutput ==
    RankReturned
        => /\ Len(last.items) = Len(input.items)
           /\ \A i \in 1..Len(input.items) :
                 Count([n \in 1..Len(last.items) |-> Original(last.items[n])],
                       input.items[i][1])
                 = Count([n \in 1..Len(input.items) |-> input.items[n][1]],
                         input.items[i][1])
           /\ \A n \in 1..Len(last.items) :
                 /\ DOMAIN last.items[n]
                      = DOMAIN Original(last.items[n])
                          \cup {"total_score", "score_breakdown", "rank"}
                 /\ last.items[n]["rank"] = n
                 /\ last.items[n]["total_score"].den = engine.den
           /\ \A n \in 1..(Len(last.items) - 1) :
                 last.items[n]["total_score"].num
                     >= last.items[n + 1]["total_score"].num

\* C6 witness: a batch of at least two ideas that the sort had to reorder
C6_Witness ==
    /\ RankReturned
    /\ Len(last.items) >= 2
    /\ Original(last.items[1]) # input.items[1][1]
    /\ last.items[1]["total_score"].num
           > last.items[Len(last.items)]["total_score"].num

\* C7: score_idea never raises when optional idea fields are missing or
\* None, for every list of well-formed signals including the empty one.
C7_NeverRaises ==
    (input.op = "score" /\ WellFormed(input.signals)
        /\ SignalInvariant(input.signals) /\ last.status # "none")
        => last.status = "ok"

\* C8: for the empty signal list demand strength is exactly 0.0 and demand
\* velocity exactly 50.0.
C8_EmptySignals ==
    (ScoreReturned /\ input.signals = <<>>)
        => last.demand_strength = 0 /\ last.demand_velocity = 50 * SScale

\* C8 witness: score_idea returned for an empty signal list
C8_Witness == ScoreReturned /\ input.signals = <<>>

\* min(100, 10 ln(1 + mean)) of the volume-like values of signals
StrengthOfMean(signals) ==
    LET I == VolumeIndices(signals)
    IN  Min(100 * SScale, Log1pTimes10(SumAt(signals, I), Cardinality(I)))

\* the lists demand strength is compared on
VolumeLists ==
    SeqsUpTo({s \in SignalPool : s["metric_type"] \in VolumeTypes}, 2) \ {<<>>}

\* the demand strength of no list of smaller or equal mean exceeds d
NonDecreasingInMean(signals, d) ==
    \A other \in VolumeLists :
        LET I == VolumeIndices(signals)
            J == VolumeIndices(other)
        IN  SumAt(other, J) * Cardinality(I) <= SumAt(signals, I) * Cardinality(J)
                => calculate_demand_strength(other) <= d

\* C9 as stated: every list without a volume-like signal has demand
\* strength 50.0; otherwise it is min(100, 10 ln(1 + mean)).
C9_NeutralWithoutVolume ==
    (ScoreReturned /\ SignalInvariant(input.signals))
        => IF VolumeIndices(input.signals) = {}
           THEN last.demand_strength = 50 * SScale
           ELSE last.demand_strength = StrengthOfMean(input.signals)

\* C9 amended: the empty list has demand strength 0.0; a non-empty list
\* without a volume-like signal has 50.0; otherwise demand strength is
\* min(100, 10 ln(1 + mean)), non-decreasing in the mean.
C9_NeutralWithoutVolumeNonEmpty ==
    (ScoreReturned /\ SignalInvariant(input.signals))
        => IF input.signals = <<>>
           THEN last.demand_strength = 0
           ELSE IF VolumeIndices(input.signals) = {}
           THEN last.demand_strength = 50 * SScale
           ELSE /\ last.demand_strength = StrengthOfMean(input.signals)
                /\ NonDecreasingInMean(input.signals, last.demand_strength)

\* C9 witness: a non-empty list without volume-like signals scored 50.0
C9_Witness ==
    /\ ScoreReturned
    /\ input.signals # <<>>
    /\ VolumeIndices(input.signals) = {}
    /\ last.demand_strength = 50 * SScale

\* the table _load_weights returned in the last construction
Loaded == load_weights(built.source)

\* sum of the loaded table, in thousandths
LoadedSum == SumValues(Loaded, DOMAIN Loaded)

\* the engine's weights sum to 1.0 within 1e-3
SumsToOne == Abs(WeightSum(engine) - engine.den) * 1000 <= engine.den

\* C10 as stated: after construction from a table of nonzero sum the
\* weights sum to 1.0 within 1e-3 and each is the loaded weight divided by
\* the loaded sum.
C10_DividedByLoadedSum ==
    (built.status = "ok" /\ LoadedSum # 0)
        => /\ SumsToOne
           /\ \A k \in DOMAIN Loaded :
                 engine.num[k] * LoadedSum = Loaded[k] * engine.den

\* C10 amended: after construction from a table of nonzero sum the weights
\* sum to 1.0 within 1e-3; each is the loaded weight divided by the loaded
\* sum when that sum is more than 1e-3 away from 1.0, and the loaded weight
\* itself otherwise.
C10_NormalizedOutsideTolerance ==
    (built.status = "ok" /\ LoadedSum # 0)
        => /\ SumsToOne
           /\ DOMAIN engine.num = DOMAIN Loaded
           /\ \A k \in DOMAIN Loaded :
                 IF Abs(LoadedSum - WScale) * 1000 > WScale
                 THEN engine.num[k] * LoadedSum = Loaded[k] * engine.den
                 ELSE engine.num[k] * WScale = Loaded[k] * engine.den

\* C10 witness: an engine built from a table whose sum was 6.0
C10_Witness ==
    /\ built.status = "ok"
    /\ built.source.kind = "config"
    /\ LoadedSum = 6 * WScale
    /\ engine.den = LoadedSum


\* the last construction read a mapping of numbers from weights.yaml
LoadedTable == built.source.kind = "config"

\* C11: constructing an engine from a weight table whose sum is zero, or
\* that holds a negative weight, signals a ConfigurationError: it neither
\* fails with a division by zero nor yields an engine.
C11_RejectsBadTables ==
    (LoadedTable /\ (LoadedSum = 0 \/ \E k \in DOMAIN Loaded : Loaded[k] < 0))
        => (built.status = "raised" /\ built.error = "ConfigurationError")


\* the weight source is missing, unreadable or malformed
MalformedSource ==
    built.source.kind \in {"none", "unreadable", "invalid", "empty",
                           "notmapping", "config_bad"}

\* C12: construction never fails because of the weight source: with the
\* file missing, unreadable or malformed (invalid YAML, empty, not a mapping,
\* a 'weights' entry that is not a mapping of numbers) the engine is built
\* with exactly the default weights and no exception reaches the caller.
C12_FallsBackToDefaults ==
    MalformedSource
        => (built.status = "ok" /\ engine = AsWeights(DEFAULT_WEIGHTS))


\* the table with the unknown keys dropped and each missing factor at its
\* default weight
Recognized(table) ==
    [k \in FactorNames |-> Get(table, k, DEFAULT_WEIGHTS[k])]

\* C13: keys of the weight table other than the six factor names have no
\* effect on the engine's weights (neither kept nor counted in the sum), each
\* missing factor takes its default weight, and score_idea works on the
\* engine so built.
C13_UnknownIgnoredMissingDefault ==
    (LoadedTable /\ built.status = "ok")
        => /\ LET expected == validate_weights(AsWeights(Recognized(Loaded)))
              IN  expected.status = "ok" => engine = expected.weights
           /\ (input.op = "score" /\ last.status = "raised")
                  => last.error # "KeyError"


\* the step is a call on the engine in use: no construction, no update, no
\* passing of time
CallStep == built' = built /\ updated' = updated /\ now' = now

\* indices of the growth-like signals
GrowthIndices(signals) ==
    {i \in 1..Len(signals) : signals[i]["metric_type"] \in GrowthTypes}

\* x limited to the score range 0..100
Clamp(x) == Max(0, Min(100 * SScale, x))

\* some signal carries a parseable data_date less than 7 days before day
DatedWithinWeek(signals, day) ==
    \E i \in 1..Len(signals) :
        /\ "data_date" \in DOMAIN signals[i]
        /\ signals[i]["data_date"] \in DOMAIN DateDay
        /\ day - DateDay[signals[i]["data_date"]] < 7

\* the demand velocity the rule gives for signals on the day of the call
VelocityRule(signals, day) ==
    LET G == GrowthIndices(signals)
    IN  IF G # {}
        THEN Clamp(50 * SScale
                   + (SumAt(signals, G) * SScale) \div (2 * Cardinality(G)))
        ELSE IF DatedWithinWeek(signals, day) THEN 70 * SScale
        ELSE 50 * SScale

LaunchCount(signals) ==
    Cardinality({i \in 1..Len(signals) :
                    /\ "source" \in DOMAIN signals[i]
                    /\ ContainsShowHn(signals[i]["source"])})

\* C15: the competition proxy is 30 with more than 5 launch indicators,
\* whatever the demand strength; otherwise 50 when the demand strength is
\* above 80; otherwise 80 when it is below 30; otherwise 65. Exactly 5
\* launches, and a demand strength of exactly 80 or 30, fall through.
C15_CompetitionPriority ==
    ScoreReturned
        => last.competition_proxy =
               (IF LaunchCount(input.signals) > 5 THEN 30 * SScale
                ELSE IF last.demand_strength > 80 * SScale THEN 50 * SScale
                ELSE IF last.demand_strength < 30 * SScale THEN 80 * SScale
                ELSE 65 * SScale)

\* exactly five launch indicators fell through to the demand-strength test
C15_Witness ==
    /\ ScoreReturned
    /\ LaunchCount(input.signals) = 5
    /\ last.demand_strength > 80 * SScale
    /\ last.competition_proxy = 50 * SScale


\* the idea names a value for the field: the key is there and its value is
\* neither None nor the empty string
Specified(idea, k) ==
    k \in DOMAIN idea /\ idea[k] # NoneVal /\ idea[k] # ""

\* 1 when the idea names a value for the field, else 0
Ind(idea, k) == IF Specified(idea, k) THEN 1 ELSE 0

\* the base feasibility of the idea's ops burden (matched without regard to
\* case): low 85, medium 65, high 40, anything else or no entry 65
FeasibilityBase(idea) ==
    IF "ops_burden_estimate" \notin DOMAIN idea THEN 65
    ELSE LET level == Lower(idea["ops_burden_estimate"])
         IN  IF level = "low" THEN 85
             ELSE IF level = "high" THEN 40
             ELSE 65

\* C16: feasibility is clamp(base + 10*[distribution channel specified]
\* - 15*[compliance risks specified], 0, 100), the base being 85, 65, 40 for
\* low, medium, high and 65 for any other or absent ops burden; nothing else
\* in the idea and nothing in the signals enters it.
C16_FeasibilityRule ==
    ScoreReturned
        => last.feasibility =
               Clamp((FeasibilityBase(input.idea)
                      + 10 * Ind(input.idea, "distribution_channel")
                      - 15 * Ind(input.idea, "compliance_risks")) * SScale)

\* a high-burden idea with a channel and compliance risks scored 35
C16_Witness ==
    /\ ScoreReturned
    /\ Get(input.idea, "ops_burden_estimate", "") = "high"
    /\ Specified(input.idea, "distribution_channel")
    /\ Specified(input.idea, "compliance_risks")
    /\ input.signals # <<>>
    /\ last.feasibility = 35 * SScale

\* C17: monetization clarity is min(100, 50 + 20*[pricing model specified]
\* + 15*[target user specified] + 15*[value proposition specified]) for all
\* eight combinations: 50 with none, exactly 100 with all three.
C17_MonetizationRule ==
    ScoreReturned
        => last.monetization_clarity =
               Min(100 * SScale,
                   (50 + 20 * Ind(input.idea, "pricing_model")
                       + 15 * Ind(input.idea, "target_user")
                       + 15 * Ind(input.idea, "value_prop")) * SScale)

\* an idea with a pricing model and a target user only scored 85
C17_Witness ==
    /\ ScoreReturned
    /\ Specified(input.idea, "pricing_model")
    /\ Specified(input.idea, "target_user")
    /\ ~Specified(input.idea, "value_prop")
    /\ last.monetization_clarity = 85 * SScale

\* the ops burden one level above low and medium
Heavier == ("low" :> "medium") @@ ("medium" :> "high")

\* C18: with every other field fixed, whatever the distribution channel and
\* the compliance risks, going from low to medium to high ops burden strictly
\* lowers feasibility and automation-friendliness: clamping never makes two
\* levels score the same.
C18_OpsBurdenMonotonic ==
    (ScoreReturned
     /\ Get(input.idea, "ops_burden_estimate", "") \in DOMAIN Heavier)
        => LET heavier == DictSet(input.idea, "ops_burden_estimate",
                                  Heavier[input.idea["ops_burden_estimate"]])
           IN  /\ calculate_feasibility(heavier) < last.feasibility
               /\ calculate_automation_friendly(heavier)
                      < last.automation_friendly

\* a medium-burden idea with compliance risks and no channel was scored
C18_Witness ==
    /\ ScoreReturned
    /\ Get(input.idea, "ops_burden_estimate", "") = "medium"
    /\ Specified(input.idea, "compliance_risks")
    /\ ~Specified(input.idea, "distribution_channel")
    /\ last.feasibility = 50 * SScale
    /\ last.automation_friendly = 60 * SScale


\* the request is the sample idea with the sample signals, whatever their
\* dates, and the engine has the default weights
SampleCase ==
    /\ input.op = "score"
    /\ input.idea = SampleIdea
    /\ input.signals \in {SampleSignals(d) : d \in SampleDates}
    /\ engine = AsWeights(DEFAULT_WEIGHTS)

\* the breakdown has feasibility 95, monetization clarity 100 and
\* automation-friendliness 90
SampleFactors(b) ==
    /\ b.feasibility = 95 * SScale
    /\ b.monetization_clarity = 100 * SScale
    /\ b.automation_friendly = 90 * SScale

\* the total of the breakdown is strictly greater than 70
Above70(b) == b.total.num > 70 * SScale * b.total.den

\* C19 as stated: with the default weights, the sample signals and the
\* sample idea, score_idea yields feasibility 95, monetization clarity 100,
\* automation-friendliness 90 and a total strictly greater than 70, for every
\* choice of the data dates and of the time of the call.
C19_SampleAbove70 ==
    (SampleCase /\ last.status = "ok")
        => (SampleFactors(last) /\ Above70(last))

\* C19 amended: the three factor values hold for every choice of dates and
\* call time; the total is strictly greater than 70 exactly when some
\* signal's data date is less than 7 days before the call (72.84), and is
\* 68.84 otherwise.
C19_SampleAbove70WhenRecent ==
    [][(CallStep /\ SampleCase /\ last'.status = "ok")
          => /\ SampleFactors(last')
             /\ Above70(last') <=> DatedWithinWeek(input.signals, now)
             /\ to_dict(last').total =
                    (IF DatedWithinWeek(input.signals, now)
                     THEN 7284 ELSE 6884)]_vars

\* the sample case scored below 70 on signals dated a week before the call
C19_Witness ==
    /\ SampleCase
    /\ last.status = "ok"
    /\ input.signals = SampleSignals("2026-02-18")
    /\ now = MaxNow
    /\ ~Above70(last)


\* the posted weights are non-negative and their sum is not zero
ValidSubmission(w) ==
    /\ \A k \in DOMAIN w : w[k] >= 0
    /\ SumValues(w, DOMAIN w) # 0

\* C20: however score_idea and rank_ideas calls interleave with weight
\* updates, a score_idea call computes its total with all six weights of one
\* table, that of the engine it runs on, and an update of valid weights
\* creates a new engine instead of changing the one in use.
C20_UpdateMakesNewEngine ==
    /\ ScoreReturned
           => last.total = [num |-> WeightedSum(last, engine.num, FactorNames),
                            den |-> engine.den]
    /\ (updated.status # "none" /\ ValidSubmission(updated.submitted))
           => (updated.status = "ok" /\ built.source.kind = "written")


\* the rationals a and b give every factor the same weight
SameWeights(a, b) ==
    \A k \in FactorNames : a.num[k] * b.den = b.num[k] * a.den

\* C21: an update with six non-negative weights of nonzero sum completes
\* successfully; the scorer it leaves is a new engine whose weights are the
\* submitted ones scaled to sum 1, and the weights of the response are the
\* weights of that engine.
C21_UpdateTakesEffect ==
    (updated.status # "none" /\ ValidSubmission(updated.submitted))
        => /\ updated.status = "ok"
           /\ built.source.kind = "written"
                  => /\ SameWeights(engine,
                                    [num |-> updated.submitted,
                                     den |-> SumValues(updated.submitted,
                                                       FactorNames)])
                     /\ SameWeights(engine, built.source.weights)


\* seq without its i-th element
RemoveAt(seq, i) == SubSeq(seq, 1, i - 1) \o SubSeq(seq, i + 1, Len(seq))

RECURSIVE Perms(_)
\* the rearrangements of seq
Perms(seq) ==
    IF seq = <<>> THEN {<<>>}
    ELSE LET firsts == {i \in 1..Len(seq) :
                           \A j \in 1..(i - 1) : seq[j] # seq[i]}
         IN  UNION {{<<seq[i]>> \o t : t \in Perms(RemoveAt(seq, i))} :
                       i \in firsts}

\* C22: the ScoreBreakdown score_idea returns is the same for every
\* permutation of the signal list: the order of the signals enters none of
\* the six sub-scores and not the total.
C22_OrderIrrelevant ==
    [][(CallStep /\ input.op = "score" /\ last'.status = "ok")
          => \A p \in Perms(input.signals) :
                 score_idea(engine, input.idea, p, now) = last']_vars

\* a list of a dated and an undated volume signal of different values was
\* scored
C22_Witness ==
    /\ ScoreReturned
    /\ Len(input.signals) = 2
    /\ VolumeIndices(input.signals) = {1, 2}
    /\ input.signals[1]["metric_value"] # input.signals[2]["metric_value"]
    /\ input.signals[1]["data_date"] = NoneVal
    /\ input.signals[2]["data_date"] = "2026-02-18"
    /\ last.demand_velocity = 70 * SScale


\* the keys rank_ideas adds to the records it returns
AddedKeys == {"total_score", "score_breakdown", "rank"}

\* C23: score_idea and rank_ideas leave their inputs and the engine as they
\* were: the caller's idea records and signal lists are unchanged (the added
\* keys are on the returned copies only), the weights are unchanged, and the
\* breakdown returned by the call before is not altered by the new call.
C23_CallsChangeNothing ==
    [][(CallStep /\ last'.status # "none")
          => /\ input' = input
             /\ engine' = engine
             /\ prev' = last
             /\ (input.op = "rank" /\ last'.status = "ok")
                    => \A i \in 1..Len(last'.items) :
                           /\ AddedKeys \subseteq DOMAIN last'.items[i]
                           /\ AddedKeys \cap DOMAIN input'.items[i][1] = {}]_vars

\* a batch of two was ranked a second time: the records returned carry the
\* added keys, the caller's do not
C23_Witness ==
    /\ RankReturned
    /\ prev.status = "ok"
    /\ Len(input.items) = 2
    /\ "rank" \in DOMAIN last.items[1]
    /\ "rank" \notin DOMAIN input.items[1][1]


\* the idea provides the field: the key is there and its value is not None
\* (an empty string is a provided value)
Provided(idea, k) == k \in DOMAIN idea /\ idea[k] # NoneVal

\* 1 when the idea provides the field, else 0
ProvidedInd(idea, k) == IF Provided(idea, k) THEN 1 ELSE 0

\* C24: a field provided as an empty string is scored like any other
\* provided value and unlike an absent one: the bonuses for pricing_model,
\* target_user, value_prop and distribution_channel and the penalty for
\* compliance_risks follow whether the field is provided, not whether its
\* value is non-empty.
C24_EmptyStringIsProvided ==
    ScoreReturned
        => /\ last.monetization_clarity =
                  Min(100 * SScale,
                      (50 + 20 * ProvidedInd(input.idea, "pricing_model")
                          + 15 * ProvidedInd(input.idea, "target_user")
                          + 15 * ProvidedInd(input.idea, "value_prop"))
                      * SScale)
           /\ last.feasibility =
                  Clamp((FeasibilityBase(input.idea)
                         + 10 * ProvidedInd(input.idea, "distribution_channel")
                         - 15 * ProvidedInd(input.idea, "compliance_risks"))
                        * SScale)


\* the totals a and b of one engine differ by less than the tolerance. The
\* totals of the model are exact, so the tolerance is taken wide enough (0.1
\* point) to hold the closest two different totals a batch of the model gets.
WithinTolerance(a, b) == Abs(a.num - b.num) * 10 < SScale * a.den

\* C25: in the output of rank_ideas, two items whose totals differ by less
\* than the tolerance, and not only items with equal totals, keep their
\* relative input order.
C25_NearTiesKeepOrder ==
    RankReturned
        => \A i, j \in 1..Len(last.items) :
              (i < j /\ WithinTolerance(last.items[i]["total_score"],
                                        last.items[j]["total_score"]))
                  => \E m, n \in 1..Len(input.items) :
                        /\ m < n
                        /\ input.items[m][1] = Original(last.items[i])
                        /\ input.items[n][1] = Original(last.items[j])


\* C26: weight normalization is idempotent: a loaded table whose sum is
\* within 0.001 of 1.0 is used as loaded, each weight at its loaded value,
\* and the validation step applied to the weights of a built engine leaves
\* them as they are.
C26_NormalizationIdempotent ==
    built.status = "ok"
        => /\ (LoadedTable /\ Abs(LoadedSum - WScale) * 1000 <= WScale)
                  => engine = AsWeights(Loaded)
           /\ validate_weights(engine) = [status |-> "ok", weights |-> engine]

\* a table summing to 1.001 was loaded and is used as loaded
C26_Witness ==
    /\ built.status = "ok"
    /\ LoadedTable
    /\ LoadedSum = WScale + 1
    /\ engine = AsWeights(Loaded)
    /\ last.status = "ok"


\* C27: for every signal list with more than 5 signals whose source
\* contains 'show_hn', whatever other fields those signals carry or lack and
\* whatever the idea, the competition proxy is computed without raising and
\* is 30, below 50.
C27_SaturatedWithoutRaising ==
    (input.op = "score" /\ last.status # "none"
     /\ LaunchCount(input.signals) > 5)
        => /\ CompetitionProxyError(input.signals) = NoError
           /\ last.status = "ok"
           /\ last.competition_proxy = 30 * SScale


\* the credentials the class of a constructor call requires are missing:
\* the API key of a YouTubeConnector, client_id or client_secret of a
\* RedditConnector; the other classes require none
CredentialsMissing(req) ==
    CASE req.class = "youtube" -> ~Truthy(req.api_key)
      [] req.class = "reddit" ->
             ~Truthy(req.client_id) \/ ~Truthy(req.client_secret)
      [] OTHER -> FALSE

\* C28: after construction (the client libraries being installed) a
\* connector is in mock mode if and only if mock mode was requested or the
\* credentials its class requires are missing; so HackerNewsConnector() is
\* not in mock mode, nor is a RedditConnector given both credentials with
\* mock_mode=False.
C28_MockIffRequestedOrMissing ==
    (connector.status = "ok" /\ input.lib_ok)
        => (connector.mock_mode
               <=> (input.mock_mode \/ CredentialsMissing(input)))

\* C30: more than 5 signals returned by HackerNewsConnector.search_show_hn,
\* scored, count as launch indicators: the competition proxy is 30.
C30_ShowHnCountsAsLaunch ==
    (connector.status = "ok" /\ connector.class = "hackernews"
     /\ last.status # "none" /\ Len(collected) > 5)
        => /\ last.status = "ok"
           /\ LaunchCount(collected) = Len(collected)
           /\ last.competition_proxy = 30 * SScale


\* C29: an assignment to the mapping returned by get_weights_config()
\* ['weights'] of one engine (or to its .weights) changes neither
\* ScoringEngine.DEFAULT_WEIGHTS, nor what any engine, that one included,
\* computes in a later score_idea call.
C29_WeightsPrivate ==
    [][input'.op = "assign"
         => /\ heap'.class = heap.class
            /\ \A f \in EngineNames :
                  engines[f].status = "ok"
                    => score_idea(heap'[engines'[f].ref], SampleIdea,
                                  SampleSignals("2026-02-23"), now)
                         = score_idea(heap[engines[f].ref], SampleIdea,
                                      SampleSignals("2026-02-23"), now)]_vars
====
